---- MODULE Spec2Model ----
(***************************************************************************)
(* KenticoKontentSource.load (src/unnamed/part_001): the materialization   *)
(* of a Kentico Kontent project into a Gridsome store, and the Asset url   *)
(* schema resolver it registers.                                           *)
(*                                                                         *)
(* load is an async function: it runs synchronously from one await to the  *)
(* next.  Every action below is one such run: the resolution (or the       *)
(* rejection) of the awaited call, followed by everything load does until  *)
(* it awaits again or returns.                                             *)
(***************************************************************************)
EXTENDS Integers, Sequences, FiniteSets, TLC

VARIABLES
  pc,            \* where load is suspended
  contentTypes,  \* contentTypes.types of load (codenames, in the order fetched)
  typeIdx,       \* position of the for loop of load in contentTypes
  contentItems,  \* addContentNodes: content.items of the current fetch
  linkedItems,   \* addContentNodes: values of content.linkedItems of the current fetch
  pass,          \* which addContentItemNodes call is running: "linked" or "primary"
  idx,           \* position of the for loop of addContentItemNodes
  node,          \* the node the last createNode() resolved with
  returned,      \* what the last addContentNode call returned
  taxonomies,    \* taxonomyGroups.taxonomies as fetched
  typeResolvers, \* deliveryClient: codenames passed to addTypeResolver, in order
  store,         \* the Gridsome store
  usedAssets,    \* ids of the assets in asset fields of the inserted content nodes
  rejection,     \* what load rejected with, and the call it was awaiting
  urlObj,        \* url resolver: the Asset node it is called on
  urlArgs,       \* url resolver: its arguments
  urlBuilder,    \* url resolver: the calls made on the ImageUrlBuilder
  urlResult      \* url resolver: what it returned

vars == <<pc, contentTypes, typeIdx, contentItems, linkedItems, pass, idx, node,
          returned, taxonomies, typeResolvers, store, usedAssets, rejection,
          urlObj, urlArgs, urlBuilder, urlResult>>

loadVars == <<pc, contentTypes, typeIdx, contentItems, linkedItems, pass, idx, node,
              returned, taxonomies, typeResolvers, store, usedAssets, rejection>>

urlVars == <<urlObj, urlArgs, urlBuilder, urlResult>>

-----------------------------------------------------------------------------
(* Bounds of the model *)

\* entries in content.items and in content.linkedItems of one fetch
MaxItems == 2
\* linked items in one linked-item field, assets in one asset field
MaxFieldItems == 2
\* taxonomy terms of a project
MaxTerms == 4

-----------------------------------------------------------------------------
(* Helpers *)

\* null and non-null values of an optional argument
Null == <<>>

Some(v) == <<v>>

Range(s) == {s[i] : i \in 1..Len(s)}

\* the sequences of at most n elements of S
SeqsUpTo(S, n) == UNION {[1..k -> S] : k \in 0..n}

\* the sequences of at most n distinct elements of S
DistinctSeqsUpTo(S, n) == {s \in SeqsUpTo(S, n) : \A i, j \in 1..Len(s) : i # j => s[i] # s[j]}

\* how many nodes of the sequence data have this id
CountId(data, id) == Cardinality({i \in 1..Len(data) : data[i].id = id})

-----------------------------------------------------------------------------
(* The remote project: what the delivery client and createNode can return *)

\* codenames of the content types of the project
ContentTypeCodenames == {"article", "author"}

\* GridsomeContentItem's type name of a content type
ContentTypeName(codename) ==
  CASE codename = "article" -> "Article"
    [] codename = "author" -> "Author"

ContentTypeNames == {ContentTypeName(c) : c \in ContentTypeCodenames}

\* the content entries of the project; c1 is a rich text component
EntryIds == {"a1", "a2", "u1", "c1"}

\* the entries of the runs that follow load through several content types
SampleEntryIds == {"a1", "u1", "c1"}

\* the entries of the runs that vary the fields of the nodes
FieldEntryIds == {"a1", "a2"}

EntryCodename(id) == IF id \in {"a1", "a2"} THEN "article" ELSE "author"

EntryIsComponent(id) == id = "c1"

AssetIds == {"A1", "A2"}

TaxonomyCodenames == <<"topics", "regions">>

\* taxonomyItemFactory.getTypeName(codename), also taxonomyItem.typeName
TaxonomyTypeName(codename) ==
  CASE codename = "topics" -> "TaxonomyTopics"
    [] codename = "regions" -> "TaxonomyRegions"

\* contentItemFactory.getAssetTypeName()
AssetTypeName == "Asset"

\* contentItemFactory.getItemLinkTypeName()
ItemLinkTypeName == "ItemLink"

LinkedItemFieldNames == <<"related", "author">>

TaxonomyFieldNames == <<"tags">>

AssetFieldNames == <<"image", "gallery">>

-----------------------------------------------------------------------------
(* The Gridsome store *)

NewStore ==
  [collections |-> [c \in {} |-> <<>>],
   references |-> {},
   schemaResolvers |-> <<>>,
   log |-> <<>>,
   thrown |-> FALSE]

\* an exception is thrown while st is the store: the calls that would follow are
\* not made
throw(st) == [st EXCEPT !.thrown = TRUE]

Call(op, collection, fieldName, typeName, id, by) ==
  [op |-> op, collection |-> collection, fieldName |-> fieldName,
   typeName |-> typeName, id |-> id, by |-> by]

\* store.addCollection(typeName)
addCollection(st, typeName) ==
  [st EXCEPT !.collections = (typeName :> <<>>) @@ @,
             !.log = Append(@, Call("addCollection", typeName, "", "", "", ""))]

\* collection.findNode({ id }): the node, or Null
findNode(st, collection, id) ==
  LET data == st.collections[collection]
      hits == {i \in 1..Len(data) : data[i].id = id}
  IN IF hits = {} THEN Null
     ELSE Some(data[CHOOSE i \in hits : \A j \in hits : i <= j])

\* collection.addNode(n)
addNode(st, collection, n, by) ==
  [st EXCEPT !.collections[collection] = Append(@, n),
             !.log = Append(@, Call("addNode", collection, "", "", n.id, by))]

\* collection.addReference(fieldName, typeName)
addReference(st, collection, fieldName, typeName, by) ==
  [st EXCEPT !.references = @ \cup
               {[collection |-> collection, fieldName |-> fieldName, typeName |-> typeName]},
             !.log = Append(@, Call("addReference", collection, fieldName, typeName, "", by))]

\* store.addSchemaResolvers(resolvers), resolvers keyed by typeName
storeAddSchemaResolvers(st, typeName) ==
  [st EXCEPT !.schemaResolvers = Append(@, typeName),
             !.log = Append(@, Call("addSchemaResolvers", "", "", typeName, "", ""))]

-----------------------------------------------------------------------------
(* KenticoKontentSource *)

getCollection(st, typeName) ==
  IF typeName \in DOMAIN st.collections THEN st
  ELSE addCollection(st, typeName)

RECURSIVE addTypeResolvers(_, _)

\* a bug: the loop ends before the last content type
addTypeResolvers_AllButLast(resolvers, types) ==
  IF Len(types) <= 1 THEN resolvers
  ELSE addTypeResolvers(Append(resolvers, Head(types)), Tail(types))

addTypeResolvers(resolvers, types) ==
  IF types = <<>> THEN resolvers
  ELSE addTypeResolvers(Append(resolvers, Head(types)), Tail(types))

\* a term list that is missing from the response: terms, or term.terms, is
\* undefined (the value stands for no list at all; no term has this id)
undefined == <<[id |-> "undefined", name |-> "undefined", slug |-> "undefined", terms |-> <<>>]>>

RECURSIVE addTaxonomyTermNodes(_, _, _)

\* a bug: the terms of a list are inserted and their children are forgotten
addTaxonomyTermNodes_TopLevel(st, collection, terms) ==
  IF Len(terms) = 0 THEN st
  ELSE LET term == Head(terms)
           termNode == [id |-> term.id,
                        name |-> term.name,
                        slug |-> term.slug,
                        terms |-> [i \in 1..Len(term.terms) |-> term.terms[i].id]]
           st1 == addNode(st, collection, termNode, "addTaxonomyTermNodes")
       IN addTaxonomyTermNodes(st1, collection, Tail(terms))

RECURSIVE addTermNodesOnly(_, _, _)
addTermNodesOnly(st, collection, terms) ==
  IF Len(terms) = 0 THEN st
  ELSE LET term == Head(terms)
           termNode == [id |-> term.id,
                        name |-> term.name,
                        slug |-> term.slug,
                        terms |-> [i \in 1..Len(term.terms) |-> term.terms[i].id]]
       IN addTermNodesOnly(addNode(st, collection, termNode, "addTaxonomyTermNodes"),
                           collection, Tail(terms))

RECURSIVE addChildTermNodes(_, _, _)
addChildTermNodes(st, collection, terms) ==
  IF Len(terms) = 0 THEN st
  ELSE addChildTermNodes(addTaxonomyTermNodes(st, collection, Head(terms).terms),
                         collection, Tail(terms))

\* a bug: the terms of a list are all inserted before the children of any of them
addTaxonomyTermNodes_SiblingsFirst(st, collection, terms) ==
  addChildTermNodes(addTermNodesOnly(st, collection, terms), collection, terms)

\* terms.length (line 83) and term.terms.map (line 92) throw a TypeError when the
\* list is undefined
addTaxonomyTermNodes(st, collection, terms) ==
  IF st.thrown THEN st
  ELSE IF terms = undefined THEN throw(st)
  ELSE IF Len(terms) = 0 THEN st
  ELSE LET term == Head(terms)
       IN IF term.terms = undefined THEN throw(st)
          ELSE LET termNode == [id |-> term.id,
                                name |-> term.name,
                                slug |-> term.slug,
                                terms |-> [i \in 1..Len(term.terms) |-> term.terms[i].id]]
                   st1 == addNode(st, collection, termNode, "addTaxonomyTermNodes")
                   st2 == addTaxonomyTermNodes(st1, collection, term.terms)
               IN addTaxonomyTermNodes(st2, collection, Tail(terms))

\* the for loop of addTaxonomyGroupNodes over taxonomyGroups.taxonomies
RECURSIVE addTaxonomyGroupNodes(_, _)
addTaxonomyGroupNodes(st, groups) ==
  IF groups = <<>> \/ st.thrown THEN st
  ELSE LET taxonomyGroup == Head(groups)
           typeName == TaxonomyTypeName(taxonomyGroup.codename)
           st1 == getCollection(st, typeName)
           st2 == addReference(st1, typeName, "terms", typeName, "addTaxonomyGroupNodes")
           st3 == addTaxonomyTermNodes(st2, typeName, taxonomyGroup.terms)
       IN addTaxonomyGroupNodes(st3, Tail(groups))

\* the for loop of addLinkedItemFields over node.linkedItemFields
RECURSIVE addLinkedItemFieldsLoop(_, _, _)

\* a bug: the type name of the last linked item instead of the first
addLinkedItemFieldsLoop_LastType(st, collection, fields) ==
  IF fields = <<>> THEN st
  ELSE LET linkedItemField == Head(fields)
       IN IF Len(linkedItemField.linkedItems) = 0
          THEN addLinkedItemFieldsLoop(st, collection, Tail(fields))
          ELSE addLinkedItemFieldsLoop(
                 addReference(st, collection, linkedItemField.fieldName,
                              linkedItemField.linkedItems[Len(linkedItemField.linkedItems)].typeName,
                              "addLinkedItemFields"),
                 collection, Tail(fields))

\* a bug: break instead of continue at an empty field
addLinkedItemFieldsLoop_Break(st, collection, fields) ==
  IF fields = <<>> THEN st
  ELSE LET linkedItemField == Head(fields)
       IN IF Len(linkedItemField.linkedItems) = 0
          THEN st
          ELSE addLinkedItemFieldsLoop(
                 addReference(st, collection, linkedItemField.fieldName,
                              linkedItemField.linkedItems[1].typeName, "addLinkedItemFields"),
                 collection, Tail(fields))

addLinkedItemFieldsLoop(st, collection, fields) ==
  IF fields = <<>> THEN st
  ELSE LET linkedItemField == Head(fields)
       IN IF Len(linkedItemField.linkedItems) = 0
          THEN addLinkedItemFieldsLoop(st, collection, Tail(fields))
          ELSE LET typeNames == [i \in 1..Len(linkedItemField.linkedItems) |->
                                   linkedItemField.linkedItems[i].typeName]
                   fieldName == linkedItemField.fieldName
                   typeName == typeNames[1]
                   st1 == addReference(st, collection, fieldName, typeName, "addLinkedItemFields")
               IN addLinkedItemFieldsLoop(st1, collection, Tail(fields))

addLinkedItemFields(st, collection, n) ==
  addLinkedItemFieldsLoop(st, collection, n.linkedItemFields)

\* the for loop of addTaxonomyFields over node.taxonomyFields
RECURSIVE addTaxonomyFieldsLoop(_, _, _)
addTaxonomyFieldsLoop(st, collection, fields) ==
  IF fields = <<>> THEN st
  ELSE LET taxonomyField == Head(fields)
           fieldName == taxonomyField.fieldName
           codename == taxonomyField.taxonomyGroup
           typeName == TaxonomyTypeName(codename)
           st1 == addReference(st, collection, fieldName, typeName, "addTaxonomyFields")
       IN addTaxonomyFieldsLoop(st1, collection, Tail(fields))

addTaxonomyFields(st, collection, n) ==
  addTaxonomyFieldsLoop(st, collection, n.taxonomyFields)

\* the inner for loop of addAssetFields over assetField.assets
RECURSIVE addAssetNodes(_, _, _)

\* a bug: the asset node is added without looking for it in the collection
addAssetNodes_NoFind(st, typeName, assets) ==
  IF assets = <<>> THEN st
  ELSE addAssetNodes(addNode(st, typeName, Head(assets), "addAssetFields"),
                     typeName, Tail(assets))

addAssetNodes(st, typeName, assets) ==
  IF assets = <<>> THEN st
  ELSE LET asset == Head(assets)
           id == asset.id
           existingNode == findNode(st, typeName, id)
           st1 == IF existingNode = Null
                  THEN addNode(st, typeName, asset, "addAssetFields")
                  ELSE st
       IN addAssetNodes(st1, typeName, Tail(assets))

\* the outer for loop of addAssetFields over node.assetFields
RECURSIVE addAssetFieldsLoop(_, _, _, _)

\* a bug: an empty asset field is skipped like an empty linked-item field
addAssetFieldsLoop_SkipEmpty(st, collection, typeName, fields) ==
  IF fields = <<>> THEN st
  ELSE LET assetField == Head(fields)
       IN IF Len(assetField.assets) = 0
          THEN addAssetFieldsLoop(st, collection, typeName, Tail(fields))
          ELSE addAssetFieldsLoop(
                 addReference(addAssetNodes(st, typeName, assetField.assets),
                              collection, assetField.fieldName, typeName, "addAssetFields"),
                 collection, typeName, Tail(fields))

addAssetFieldsLoop(st, collection, typeName, fields) ==
  IF fields = <<>> THEN st
  ELSE LET assetField == Head(fields)
           fieldName == assetField.fieldName
           st1 == addAssetNodes(st, typeName, assetField.assets)
           st2 == addReference(st1, collection, fieldName, typeName, "addAssetFields")
       IN addAssetFieldsLoop(st2, collection, typeName, Tail(fields))

addAssetFields(st, collection, n) ==
  LET typeName == AssetTypeName
      st1 == getCollection(st, typeName)
  IN addAssetFieldsLoop(st1, collection, typeName, n.assetFields)

\* the item's path is copied like its id and typeName and is left out
addItemLinkNode(st, collectionNode) ==
  LET typeName == ItemLinkTypeName
      st1 == getCollection(st, typeName)
      itemLinkNode == [id |-> collectionNode.id, typeName |-> collectionNode.typeName]
  IN addNode(st1, typeName, itemLinkNode, "addItemLinkNode")

\* a bug: an ItemLink node for every content node
needsItemLink_Always(collectionNode) == TRUE

\* line 176
needsItemLink(collectionNode) == ~collectionNode.isComponent

\* a bug: the node is added before its fields are resolved
insertContentNode_NodeFirst(st, collection, n) ==
  LET collectionNode == n.item
      st1 == addNode(st, collection, collectionNode, "addContentNode")
      st2 == addLinkedItemFields(st1, collection, n)
      st3 == addTaxonomyFields(st2, collection, n)
      st4 == addAssetFields(st3, collection, n)
      st5 == IF needsItemLink(collectionNode)
             THEN addItemLinkNode(st4, collectionNode)
             ELSE st4
  IN [store |-> st5, returned |-> collectionNode]

\* lines 168-183 of addContentNode: the store after them and what is returned
insertContentNode(st, collection, n) ==
  LET st1 == addLinkedItemFields(st, collection, n)
      st2 == addTaxonomyFields(st1, collection, n)
      st3 == addAssetFields(st2, collection, n)
      collectionNode == n.item
      st4 == addNode(st3, collection, collectionNode, "addContentNode")
      st5 == IF needsItemLink(collectionNode)
             THEN addItemLinkNode(st4, collectionNode)
             ELSE st4
  IN [store |-> st5, returned |-> collectionNode]

\* a bug: the fields of the node are resolved before the node is looked for
addContentNode_ResolveFirst(st, collection, n) ==
  LET st1 == addLinkedItemFields(st, collection, n)
      st2 == addTaxonomyFields(st1, collection, n)
      st3 == addAssetFields(st2, collection, n)
      existingNode == findNode(st3, collection, n.item.id)
  IN IF existingNode # Null
     THEN [store |-> st3, returned |-> existingNode[1]]
     ELSE insertContentNode(st, collection, n)

\* a bug: the node is inserted without looking for it in the collection
addContentNode_NoDedup(st, collection, n) == insertContentNode(st, collection, n)

\* the store after the call and what the call returned
addContentNode(st, collection, n) ==
  LET existingNode == findNode(st, collection, n.item.id)
  IN IF existingNode # Null
     THEN [store |-> st, returned |-> existingNode[1]]
     ELSE insertContentNode(st, collection, n)

\* the body of the for loop of addContentItemNodes, after createNode() resolved with n
addContentItemNode(st, n) ==
  LET typeName == n.item.typeName
      st1 == getCollection(st, typeName)
  IN addContentNode(st1, typeName, n)

\* a bug: the resolvers are registered without looking at the Asset collection
addAssetSchemaResolvers_Always(st) ==
  storeAddSchemaResolvers(getCollection(st, AssetTypeName), AssetTypeName)

addAssetSchemaResolvers(st) ==
  LET typeName == AssetTypeName
      st1 == getCollection(st, typeName)
  IN IF Len(st1.collections[typeName]) = 0 THEN st1
     ELSE storeAddSchemaResolvers(st1, typeName)

addSchemaResolvers(st) == addAssetSchemaResolvers(st)

\* a bug: the loop steps over the content type that follows
continueLoad_StepOver(st, types, k) ==
  IF k + 1 < Len(types)
  THEN [pc |-> "getContent", typeIdx |-> k + 2, store |-> st]
  ELSE [pc |-> "done", typeIdx |-> Len(types), store |-> addSchemaResolvers(st)]

\* lines 24-30 of load once k content types are done: the next getContent, or the
\* schema resolvers and the end of load
continueLoad(st, types, k) ==
  IF k < Len(types)
  THEN [pc |-> "getContent", typeIdx |-> k + 1, store |-> st]
  ELSE [pc |-> "done", typeIdx |-> k, store |-> addSchemaResolvers(st)]

\* a bug: the failure is caught and logged, and load goes on to its last step
rejectLoad_CatchAndGoOn(st, awaited, failure) ==
  [pc |-> "done",
   store |-> addSchemaResolvers(st),
   rejection |-> Some([awaited |-> awaited, failure |-> failure])]

\* an awaited call of load rejects, or a step of load throws: load has no
\* try/catch, so it rejects with the failure and runs no further
rejectLoad(st, awaited, failure) ==
  [pc |-> "rejected",
   store |-> st,
   rejection |-> Some([awaited |-> awaited, failure |-> failure])]

\* a bug: the content items are counted after the linked items were added
firstPass_LinkedFirst(items, linked) ==
  IF Len(linked) > 0 THEN "linked"
  ELSE IF Len(items) = 0 THEN "none"
  ELSE "primary"

\* a bug: the linked items are not added before the content items
firstPass_PrimaryOnly(items, linked) ==
  IF Len(items) = 0 THEN "none" ELSE "primary"

\* lines 114-138 of addContentNodes: which addContentItemNodes call comes first,
\* "none" when addContentNodes returns early
firstPass(items, linked) ==
  IF Len(items) = 0 THEN "none"
  ELSE IF Len(linked) > 0 THEN "linked"
  ELSE "primary"

\* the entries the running addContentItemNodes call iterates over
passItems == IF pass = "linked" THEN linkedItems ELSE contentItems

-----------------------------------------------------------------------------
(* What the collaborators can answer *)

TermNames == <<"t1", "t2", "t3", "t4", "t5", "t6">>

TermIds == {TermNames[i] : i \in 1..MaxTerms}

Term(id, children) == [id |-> id, name |-> id, slug |-> id, terms |-> children]

\* the ordered forests whose terms are exactly the ids of S
RECURSIVE Forests(_)
Forests(S) ==
  IF S = {} THEN {<<>>}
  ELSE UNION {UNION {{<<Term(r, f1)>> \o f2 : f1 \in Forests(A), f2 \in Forests((S \ {r}) \ A)}
                       : A \in SUBSET (S \ {r})}
                : r \in S}

TaxonomyGroup(codename, terms) == [codename |-> codename, terms |-> terms]

\* getTaxonomyGroups(): at most two groups whose terms are among ids
TaxonomyResponses(ids) ==
  {<<>>}
  \cup {<<TaxonomyGroup(TaxonomyCodenames[1], f)>> : f \in UNION {Forests(S) : S \in SUBSET ids}}
  \cup UNION {UNION {{<<TaxonomyGroup(TaxonomyCodenames[1], f1), TaxonomyGroup(TaxonomyCodenames[2], f2)>>
                        : f1 \in Forests(S1), f2 \in Forests(S2)}
                      : S2 \in SUBSET (ids \ S1)}
               : S1 \in SUBSET ids}

\* getContent(codename): entries of the type, and a side table of linked entries
ContentResponses(codename, entries, linked) ==
  {[items |-> i, linkedItems |-> l] :
     i \in DistinctSeqsUpTo({e \in entries : EntryCodename(e) = codename /\ ~EntryIsComponent(e)}, MaxItems),
     l \in DistinctSeqsUpTo(linked, MaxItems)}

LinkedItemFieldSets(n) ==
  {[i \in 1..Len(LinkedItemFieldNames) |-> [fieldName |-> LinkedItemFieldNames[i], linkedItems |-> c[i]]]
     : c \in [1..Len(LinkedItemFieldNames) -> SeqsUpTo({[typeName |-> t] : t \in ContentTypeNames}, n)]}

AssetFieldSets(n) ==
  {[i \in 1..Len(AssetFieldNames) |-> [fieldName |-> AssetFieldNames[i], assets |-> c[i]]]
     : c \in [1..Len(AssetFieldNames) -> SeqsUpTo({[id |-> a] : a \in AssetIds}, n)]}

TaxonomyFieldSets(groups) ==
  {<<>>} \cup {<<[fieldName |-> TaxonomyFieldNames[1], taxonomyGroup |-> groups[g].codename]>>
                 : g \in 1..Len(groups)}

\* the field groups createNode() can answer with
Shapes(nLinked, nAssets, groups) ==
  {[linkedItemFields |-> l, taxonomyFields |-> t, assetFields |-> a] :
     l \in LinkedItemFieldSets(nLinked), t \in TaxonomyFieldSets(groups), a \in AssetFieldSets(nAssets)}

\* createNode() of the raw entry id, met in the pass via
CreatedNode(id, via, shape) ==
  [item |-> [id |-> id,
             typeName |-> ContentTypeName(EntryCodename(id)),
             isComponent |-> EntryIsComponent(id),
             via |-> via],
   linkedItemFields |-> shape.linkedItemFields,
   taxonomyFields |-> shape.taxonomyFields,
   assetFields |-> shape.assetFields]

NoNode == CreatedNode("a1", "none", [linkedItemFields |-> <<>>, taxonomyFields |-> <<>>, assetFields |-> <<>>])

-----------------------------------------------------------------------------
(* load *)

InitLoad ==
  /\ pc = "init"
  /\ contentTypes = <<>>
  /\ typeIdx = 0
  /\ contentItems = <<>>
  /\ linkedItems = <<>>
  /\ pass = "none"
  /\ idx = 0
  /\ node = NoNode
  /\ returned = Null
  /\ taxonomies = <<>>
  /\ typeResolvers = <<>>
  /\ store = NewStore
  /\ usedAssets = {}
  /\ rejection = Null

InitUrl ==
  /\ urlObj = [url |-> "url", type |-> "image/png"]
  /\ urlArgs = <<>>
  /\ urlBuilder = <<>>
  /\ urlResult = Null

Init == InitLoad /\ InitUrl

\* load(store) is called: line 14 issues getContentTypes()
Load ==
  /\ pc = "init"
  /\ pc' = "getContentTypes"
  /\ store' = [store EXCEPT !.log = <<>>]
  /\ UNCHANGED <<contentTypes, typeIdx, contentItems, linkedItems, pass, idx, node,
                 returned, taxonomies, typeResolvers, usedAssets, rejection>>
  /\ UNCHANGED urlVars

\* getContentTypes() resolves: lines 14-20 and 63, up to the await of getTaxonomyGroups()
GetContentTypesResolved(types) ==
  /\ pc = "getContentTypes"
  /\ contentTypes' = types
  /\ typeResolvers' = addTypeResolvers(typeResolvers, types)
  /\ pc' = "getTaxonomyGroups"
  /\ store' = [store EXCEPT !.log = <<>>]
  /\ UNCHANGED <<typeIdx, contentItems, linkedItems, pass, idx, node, returned,
                 taxonomies, usedAssets, rejection>>
  /\ UNCHANGED urlVars

\* getTaxonomyGroups() resolves: lines 63-80, then the for loop of load up to the
\* first getContent(), or to the end of load when there is no content type; a
\* TypeError thrown on the way rejects load
GetTaxonomyGroupsResolved(groups) ==
  /\ pc = "getTaxonomyGroups"
  /\ taxonomies' = groups
  /\ LET st1 == addTaxonomyGroupNodes([store EXCEPT !.log = <<>>], groups)
         next == continueLoad(st1, contentTypes, 0)
         rejected == rejectLoad(st1, pc, "TypeError")
     IN IF st1.thrown
        THEN /\ pc' = rejected.pc
             /\ store' = rejected.store
             /\ rejection' = rejected.rejection
             /\ UNCHANGED typeIdx
        ELSE /\ pc' = next.pc
             /\ typeIdx' = next.typeIdx
             /\ store' = next.store
             /\ UNCHANGED rejection
  /\ UNCHANGED <<contentTypes, contentItems, linkedItems, pass, idx, node, returned,
                 typeResolvers, usedAssets>>
  /\ UNCHANGED urlVars

\* getContent(codename) resolves: lines 110-138 up to the first createNode(), or
\* the early return of line 119 and the for loop of load
GetContentResolved(content) ==
  /\ pc = "getContent"
  /\ contentItems' = content.items
  /\ linkedItems' = content.linkedItems
  /\ LET first == firstPass(content.items, content.linkedItems)
         next == continueLoad([store EXCEPT !.log = <<>>], contentTypes, typeIdx)
     IN IF first = "none"
        THEN /\ pc' = next.pc
             /\ typeIdx' = next.typeIdx
             /\ store' = next.store
             /\ pass' = "none"
             /\ idx' = 0
        ELSE /\ pc' = "createNode"
             /\ pass' = first
             /\ idx' = 1
             /\ store' = [store EXCEPT !.log = <<>>]
             /\ UNCHANGED typeIdx
  /\ UNCHANGED <<contentTypes, node, returned, taxonomies, typeResolvers, usedAssets,
                 rejection>>
  /\ UNCHANGED urlVars

AssetIdsOf(n) ==
  UNION {{n.assetFields[f].assets[i].id : i \in 1..Len(n.assetFields[f].assets)}
           : f \in 1..Len(n.assetFields)}

\* createNode() resolves with n: lines 145-157, then the next createNode() of this
\* call or of the call of line 138, or the for loop of load
CreateNodeResolved(n) ==
  /\ pc = "createNode"
  /\ node' = n
  /\ LET st0 == [store EXCEPT !.log = <<>>]
         r == addContentItemNode(st0, n)
         typeName == n.item.typeName
         inserted == CountId(r.store.collections[typeName], n.item.id)
                       > (IF typeName \in DOMAIN store.collections
                          THEN CountId(store.collections[typeName], n.item.id) ELSE 0)
         next == continueLoad(r.store, contentTypes, typeIdx)
     IN /\ returned' = Some(r.returned)
        /\ usedAssets' = IF inserted THEN usedAssets \cup AssetIdsOf(n) ELSE usedAssets
        /\ IF idx < Len(passItems)
           THEN /\ pc' = "createNode"
                /\ idx' = idx + 1
                /\ store' = r.store
                /\ UNCHANGED <<pass, typeIdx>>
           ELSE IF pass = "linked" /\ Len(contentItems) > 0
           THEN /\ pc' = "createNode"
                /\ pass' = "primary"
                /\ idx' = 1
                /\ store' = r.store
                /\ UNCHANGED typeIdx
           ELSE /\ pc' = next.pc
                /\ typeIdx' = next.typeIdx
                /\ store' = next.store
                /\ UNCHANGED <<pass, idx>>
  /\ UNCHANGED <<contentTypes, contentItems, linkedItems, taxonomies, typeResolvers,
                 rejection>>
  /\ UNCHANGED urlVars

\* the awaited call rejects with failure: load rejects (no try/catch in load)
AwaitRejectedWith(failure) ==
  /\ pc \in {"getContentTypes", "getTaxonomyGroups", "getContent", "createNode"}
  /\ LET next == rejectLoad([store EXCEPT !.log = <<>>], pc, failure)
     IN /\ pc' = next.pc
        /\ store' = next.store
        /\ rejection' = next.rejection
  /\ UNCHANGED <<contentTypes, typeIdx, contentItems, linkedItems, pass, idx, node,
                 returned, taxonomies, typeResolvers, usedAssets>>
  /\ UNCHANGED urlVars

\* what a call of the delivery client or createNode() can reject with
Failures == {"NetworkError", "ConstructorError"}

AwaitRejected == \E failure \in Failures : AwaitRejectedWith(failure)

\* the runs over many nodes or many taxonomies look at one failure
AwaitRejectedOnce == AwaitRejectedWith("NetworkError")

\* getContentTypes(): the content types of the project
ContentTypesResponses == {<<"article", "author">>}

\* the taxonomy of the runs that go on to assemble content
SampleTaxonomies ==
  {<<>>,
   <<TaxonomyGroup("topics", <<Term("t1", <<Term("t2", <<>>)>>)>>),
     TaxonomyGroup("regions", <<Term("t3", <<>>)>>)>>}

LinkedField(i, types) ==
  [fieldName |-> LinkedItemFieldNames[i],
   linkedItems |-> [k \in 1..Len(types) |-> [typeName |-> types[k]]]]

AssetField(i, ids) ==
  [fieldName |-> AssetFieldNames[i], assets |-> [k \in 1..Len(ids) |-> [id |-> ids[k]]]]

\* the nodes of the runs that follow load through several content types: a node
\* without fields, and nodes with fields of the three groups
SampleShapes(groups) ==
  {[linkedItemFields |-> <<>>, taxonomyFields |-> <<>>, assetFields |-> <<>>]}
  \cup {[linkedItemFields |-> <<LinkedField(1, <<"Author", "Article">>), LinkedField(2, <<>>)>>,
         taxonomyFields |-> t,
         assetFields |-> <<AssetField(1, a), AssetField(2, <<>>)>>]
          : t \in TaxonomyFieldSets(groups) \ {<<>>}, a \in {<<"A1">>, <<"A2", "A1">>}}

GetContentTypes ==
  \E types \in ContentTypesResponses : GetContentTypesResolved(types)

GetTaxonomyGroups ==
  \E groups \in SampleTaxonomies : GetTaxonomyGroupsResolved(groups)

GetContent ==
  /\ pc = "getContent"
  /\ \E content \in ContentResponses(contentTypes[typeIdx], SampleEntryIds, SampleEntryIds) : GetContentResolved(content)

CreateNode ==
  /\ pc = "createNode"
  /\ \E shape \in SampleShapes(taxonomies) :
       CreateNodeResolved(CreatedNode(passItems[idx], pass, shape))

Next ==
  \/ Load
  \/ GetContentTypes
  \/ GetTaxonomyGroups
  \/ GetContent
  \/ CreateNode
  \/ AwaitRejected

Spec == Init /\ [][Next]_vars

-----------------------------------------------------------------------------
(* load of one content type, over nodes whose fields vary *)

\* nodes that vary their linked-item fields, nodes that vary their asset fields,
\* and the nodes with fields of the three groups
FieldShapes(groups) ==
  {[linkedItemFields |-> l, taxonomyFields |-> <<>>, assetFields |-> <<>>]
     : l \in LinkedItemFieldSets(MaxFieldItems)}
  \cup {[linkedItemFields |-> <<>>, taxonomyFields |-> <<>>, assetFields |-> a]
          : a \in AssetFieldSets(MaxFieldItems)}
  \cup SampleShapes(groups)

GetContentTypesFields == GetContentTypesResolved(<<"article">>)

GetTaxonomyGroupsFields ==
  GetTaxonomyGroupsResolved(<<TaxonomyGroup("topics", <<Term("t1", <<>>)>>)>>)

GetContentFields ==
  /\ pc = "getContent"
  /\ \E content \in ContentResponses(contentTypes[typeIdx], FieldEntryIds, {}) :
       GetContentResolved(content)

CreateNodeFields ==
  /\ pc = "createNode"
  /\ \E shape \in FieldShapes(taxonomies) :
       CreateNodeResolved(CreatedNode(passItems[idx], pass, shape))

NextFields ==
  \/ Load
  \/ GetContentTypesFields
  \/ GetTaxonomyGroupsFields
  \/ GetContentFields
  \/ CreateNodeFields
  \/ AwaitRejectedOnce

SpecFields == Init /\ [][NextFields]_vars

-----------------------------------------------------------------------------
(* load of a project without content types, over its taxonomy *)

GetContentTypesNone == GetContentTypesResolved(<<>>)

GetTaxonomyGroupsAll ==
  /\ pc = "getTaxonomyGroups"
  /\ \E groups \in TaxonomyResponses(TermIds) : GetTaxonomyGroupsResolved(groups)

NextTaxonomy ==
  \/ Load
  \/ GetContentTypesNone
  \/ GetTaxonomyGroupsAll
  \/ AwaitRejectedOnce

SpecTaxonomy == Init /\ [][NextTaxonomy]_vars

-----------------------------------------------------------------------------
(* load of a project without content types, over taxonomies with missing lists *)

\* the term lists of a forest, with any of its empty lists missing
RECURSIVE WithMissingLists(_)
WithMissingLists(terms) ==
  IF terms = <<>> THEN {<<>>, undefined}
  ELSE {<<Term(Head(terms).id, c)>> \o r :
          c \in WithMissingLists(Head(terms).terms),
          r \in WithMissingLists(Tail(terms)) \ {undefined}}

MalformedTermIds == {"t1", "t2", "t3"}

\* getTaxonomyGroups(): a group of at most three terms, alone or followed or
\* preceded by a well-formed group of one term
MalformedResponses ==
  LET first == UNION {WithMissingLists(f) : f \in UNION {Forests(S) : S \in SUBSET MalformedTermIds}}
      other == TaxonomyGroup(TaxonomyCodenames[2], <<Term("t4", <<>>)>>)
  IN UNION {{<<TaxonomyGroup(TaxonomyCodenames[1], f)>>,
             <<TaxonomyGroup(TaxonomyCodenames[1], f), other>>,
             <<other, TaxonomyGroup(TaxonomyCodenames[1], f)>>} : f \in first}

GetTaxonomyGroupsMalformed ==
  /\ pc = "getTaxonomyGroups"
  /\ \E groups \in MalformedResponses : GetTaxonomyGroupsResolved(groups)

NextMalformed ==
  \/ Load
  \/ GetContentTypesNone
  \/ GetTaxonomyGroupsMalformed
  \/ AwaitRejectedOnce

SpecMalformed == Init /\ [][NextMalformed]_vars

-----------------------------------------------------------------------------
(* The url resolver of the Asset type (getAssetSchemaResolvers) *)

\* String.prototype.toLowerCase on the strings of the model
toLowerCase(str) ==
  CASE str = "PNG" -> "png"
    [] str = "Jpeg" -> "jpeg"
    [] str = "WebP" -> "webp"
    [] str = "IMAGE/PNG" -> "image/png"
    [] str = "Image/Gif" -> "image/gif"
    [] OTHER -> str

\* one call on the ImageUrlBuilder: a number or an enum value as its argument
BuilderCall(op, n, e) == [op |-> op, n |-> n, e |-> e]

\* lines 353-367
withAutomaticFormatOf(b, obj, args) ==
  IF args.automaticFormat # Null
  THEN IF args.automaticFormat[1]
       THEN CASE toLowerCase(obj.type) = "image/gif" ->
                   Append(b, BuilderCall("withAutomaticFormat", 0, "gif"))
              [] toLowerCase(obj.type) = "image/jpeg" ->
                   Append(b, BuilderCall("withAutomaticFormat", 0, "jpg"))
              [] toLowerCase(obj.type) = "image/png" ->
                   Append(b, BuilderCall("withAutomaticFormat", 0, "png"))
              [] OTHER -> b
       ELSE b
  ELSE b

\* a bug (or another design): else if, the explicit format gives way to automaticFormat
withFormatOf_ElseIf(b, obj, args) ==
  IF args.automaticFormat # Null /\ args.automaticFormat[1] THEN b
  ELSE IF args.format # Null
  THEN LET f == toLowerCase(args.format[1])
       IN CASE f = "gif" -> Append(b, BuilderCall("withFormat", 0, "gif"))
            [] f \in {"jpg", "jpeg"} -> Append(b, BuilderCall("withFormat", 0, "jpg"))
            [] f \in {"pjpg", "pjpeg"} -> Append(b, BuilderCall("withFormat", 0, "pjpg"))
            [] f = "png" -> Append(b, BuilderCall("withFormat", 0, "png"))
            [] f = "png8" -> Append(b, BuilderCall("withFormat", 0, "png8"))
            [] f = "webp" -> Append(b, BuilderCall("withFormat", 0, "webp"))
            [] OTHER -> b
  ELSE b

\* lines 369-392
withFormatOf(b, obj, args) ==
  IF args.format # Null
  THEN LET f == toLowerCase(args.format[1])
       IN CASE f = "gif" -> Append(b, BuilderCall("withFormat", 0, "gif"))
            [] f \in {"jpg", "jpeg"} -> Append(b, BuilderCall("withFormat", 0, "jpg"))
            [] f \in {"pjpg", "pjpeg"} -> Append(b, BuilderCall("withFormat", 0, "pjpg"))
            [] f = "png" -> Append(b, BuilderCall("withFormat", 0, "png"))
            [] f = "png8" -> Append(b, BuilderCall("withFormat", 0, "png8"))
            [] f = "webp" -> Append(b, BuilderCall("withFormat", 0, "webp"))
            [] OTHER -> b
  ELSE b

\* a bug: the format is selected before the dimensions are applied
resolve_FormatFirst(obj, args) ==
  LET b0 == <<>>
      b1 == withAutomaticFormatOf(b0, obj, args)
      b2 == withFormatOf(b1, obj, args)
      b3 == IF args.width # Null
            THEN Append(b2, BuilderCall("withWidth", args.width[1], "")) ELSE b2
      b4 == IF args.height # Null
            THEN Append(b3, BuilderCall("withHeight", args.height[1], "")) ELSE b3
      b5 == IF args.lossless # Null
            THEN Append(b4, BuilderCall("withCompression", 0,
                                        IF args.lossless[1] THEN "lossless" ELSE "lossy"))
            ELSE b4
      b6 == IF args.quality # Null
            THEN Append(b5, BuilderCall("withQuality", args.quality[1], "")) ELSE b5
      b7 == IF args.dpr # Null
            THEN Append(b6, BuilderCall("withDpr", args.dpr[1], "")) ELSE b6
  IN b7

\* the calls resolve(obj, args) makes on the ImageUrlBuilder, in order
resolve(obj, args) ==
  LET b0 == <<>>
      b1 == IF args.width # Null
            THEN Append(b0, BuilderCall("withWidth", args.width[1], "")) ELSE b0
      b2 == IF args.height # Null
            THEN Append(b1, BuilderCall("withHeight", args.height[1], "")) ELSE b1
      b3 == withAutomaticFormatOf(b2, obj, args)
      b4 == withFormatOf(b3, obj, args)
      b5 == IF args.lossless # Null
            THEN Append(b4, BuilderCall("withCompression", 0,
                                        IF args.lossless[1] THEN "lossless" ELSE "lossy"))
            ELSE b4
      b6 == IF args.quality # Null
            THEN Append(b5, BuilderCall("withQuality", args.quality[1], "")) ELSE b5
      b7 == IF args.dpr # Null
            THEN Append(b6, BuilderCall("withDpr", args.dpr[1], "")) ELSE b6
  IN b7

MediaTypes == {"image/gif", "image/jpeg", "image/png", "IMAGE/PNG", "Image/Gif",
               "image/webp", "application/pdf"}

FormatArgs == {"gif", "jpg", "jpeg", "pjpg", "pjpeg", "png", "png8", "webp",
               "PNG", "Jpeg", "WebP", "bmp", ""}

Optional(S) == {Null} \cup {Some(v) : v \in S}

UrlArgs ==
  [width : Optional({0, 300}),
   height : Optional({200}),
   automaticFormat : Optional(BOOLEAN),
   format : Optional(FormatArgs),
   lossless : Optional(BOOLEAN),
   quality : Optional({80}),
   dpr : Optional({2})]

NoArgs ==
  [width |-> Null, height |-> Null, automaticFormat |-> Null, format |-> Null,
   lossless |-> Null, quality |-> Null, dpr |-> Null]

\* a query of the url field of an Asset node
InitUrlQuery ==
  /\ urlObj \in [url : {"url"}, type : MediaTypes]
  /\ urlArgs \in UrlArgs
  /\ urlBuilder = <<>>
  /\ urlResult = Null

\* resolve(obj, args) runs and returns urlBuilder.getUrl()
Resolve ==
  /\ urlResult = Null
  /\ urlBuilder' = resolve(urlObj, urlArgs)
  /\ urlResult' = Some([url |-> urlObj.url, params |-> resolve(urlObj, urlArgs)])
  /\ UNCHANGED <<urlObj, urlArgs>>
  /\ UNCHANGED loadVars

NextUrl == Resolve

InitQuery == InitLoad /\ InitUrlQuery

SpecUrl == InitQuery /\ [][NextUrl]_vars

-----------------------------------------------------------------------------
(* What the claims speak of *)

\* the collections of content nodes
ContentCollections(st) == DOMAIN st.collections \cap ContentTypeNames

NodesOf(st, typeName) ==
  IF typeName \in DOMAIN st.collections THEN st.collections[typeName] ELSE <<>>

IdsOf(data) == {data[i].id : i \in 1..Len(data)}

EntryTypeName(id) == ContentTypeName(EntryCodename(id))

\* the content entry id has a node in the collection of its type
Present(st, id) == CountId(NodesOf(st, EntryTypeName(id)), id) > 0

ContentNodeCount(st) ==
  Len(NodesOf(st, "Article")) + Len(NodesOf(st, "Author"))

\* this step is the resolution of a createNode() call
CreateNodeStep == pc = "createNode" /\ pc' # "rejected"

\* this step inserts a content node
ContentNodeInserted == ContentNodeCount(store') > ContentNodeCount(store)

\* the last step resolved the fields of node and inserted it
NodeResolved ==
  \E k \in 1..Len(store.log) :
    /\ store.log[k].op = "addNode"
    /\ store.log[k].by = "addContentNode"
    /\ store.log[k].id = node.item.id

LogBy(by) == SelectSeq(store.log, LAMBDA c : c.by = by)

-----------------------------------------------------------------------------
(* C1 *)

UniqueContentIds(st) ==
  \A c \in ContentCollections(st) : \A id \in EntryIds : CountId(st.collections[c], id) <= 1

\* C1: no collection of content nodes ever holds two nodes with one id, and a
\* createNode() step for an entry whose id is already in its collection leaves
\* that collection as it is and returns the record that is in it
C1_IdempotentDedup ==
  [][/\ UniqueContentIds(store')
     /\ (CreateNodeStep /\ Present(store, passItems[idx])) =>
          LET id == passItems[idx]
              data == NodesOf(store, EntryTypeName(id))
          IN /\ NodesOf(store', EntryTypeName(id)) = data
             /\ \E i \in 1..Len(data) : data[i].id = id /\ returned' = Some(data[i])]_vars

\* an entry inserted as a linked item is met again as a primary entry, and the
\* record of the linked item is returned
C1_Witness ==
  /\ returned # Null
  /\ node.item.via = "primary"
  /\ returned[1].id = node.item.id
  /\ returned[1].via = "linked"
  /\ CountId(NodesOf(store, node.item.typeName), node.item.id) = 1

-----------------------------------------------------------------------------
(* C2 *)

\* C2: a step of the pass over the primary entries of a fetch with linked items
\* inserts a content node only when every linked item of the fetch has its node
C2_LinkedBeforePrimary ==
  [][(CreateNodeStep /\ pass = "primary" /\ Len(linkedItems) > 0 /\ ContentNodeInserted)
       => \A i \in 1..Len(linkedItems) : Present(store, linkedItems[i])]_vars

\* a primary entry was inserted after two linked items, one of another type
C2_Witness ==
  /\ pass = "primary"
  /\ Len(linkedItems) = 2
  /\ \E i \in 1..Len(linkedItems) : EntryTypeName(linkedItems[i]) # node.item.typeName
  /\ NodeResolved
  /\ node.item.via = "primary"
  /\ \A i \in 1..Len(linkedItems) : Present(store, linkedItems[i])

-----------------------------------------------------------------------------
(* C3 *)

RECURSIVE TermIdsIn(_)
TermIdsIn(terms) ==
  IF terms = <<>> THEN {}
  ELSE {Head(terms).id} \cup TermIdsIn(Head(terms).terms) \cup TermIdsIn(Tail(terms))

TaxonomyTypeNames == {TaxonomyTypeName(TaxonomyCodenames[i]) : i \in 1..Len(TaxonomyCodenames)}

TaxonomyReferenceCalls(log) ==
  {k \in 1..Len(log) : log[k].op = "addReference" /\ log[k].by = "addTaxonomyFields"}

\* C3: when a step declares the reference of a taxonomy field, the collection of
\* the field's taxonomy group was in the store before the step, with the nodes of
\* all the terms of the group; and once a content node is in the store no step
\* adds a node to a taxonomy collection
C3_TaxonomyPrecedesContent ==
  [][/\ \A k \in TaxonomyReferenceCalls(store'.log) :
          \E f \in 1..Len(node'.taxonomyFields) : \E g \in 1..Len(taxonomies) :
            /\ node'.taxonomyFields[f].fieldName = store'.log[k].fieldName
            /\ node'.taxonomyFields[f].taxonomyGroup = taxonomies[g].codename
            /\ store'.log[k].typeName \in DOMAIN store.collections
            /\ store'.log[k].typeName \in TaxonomyTypeNames
            /\ IdsOf(store.collections[store'.log[k].typeName]) = TermIdsIn(taxonomies[g].terms)
     /\ ContentNodeCount(store) > 0 =>
          \A t \in TaxonomyTypeNames : NodesOf(store', t) = NodesOf(store, t)]_vars

\* a content node with a taxonomy field was inserted, and the terms of the group
\* of the field, a nested one among them, are in the group's collection
C3_Witness ==
  /\ NodeResolved
  /\ TaxonomyReferenceCalls(store.log) # {}
  /\ \E k \in TaxonomyReferenceCalls(store.log) :
       IdsOf(NodesOf(store, store.log[k].typeName)) = {"t1", "t2"}

-----------------------------------------------------------------------------
(* C5 *)

\* C5: the ItemLink collection holds exactly one node for the id of every content
\* node that is no component, none for the id of a component, and no other node
C5_ItemLinkDerivation ==
  /\ \A c \in ContentCollections(store) : \A i \in 1..Len(store.collections[c]) :
        CountId(NodesOf(store, ItemLinkTypeName), store.collections[c][i].id)
          = IF store.collections[c][i].isComponent THEN 0 ELSE 1
  /\ \A k \in 1..Len(NodesOf(store, ItemLinkTypeName)) :
        /\ Present(store, NodesOf(store, ItemLinkTypeName)[k].id)
        /\ NodesOf(store, ItemLinkTypeName)[k].typeName
             = EntryTypeName(NodesOf(store, ItemLinkTypeName)[k].id)

\* a component and a page are in the Author collection, the page was met a
\* second time, and only the page has an ItemLink node
C5_Witness ==
  /\ IdsOf(NodesOf(store, "Author")) = {"u1", "c1"}
  /\ IdsOf(NodesOf(store, ItemLinkTypeName)) = {"u1"}
  /\ returned # Null
  /\ returned[1].id = "u1"
  /\ returned[1].via # node.item.via

-----------------------------------------------------------------------------
(* C4 *)

\* C4: the Asset collection never holds two nodes with one id, and it holds one
\* node for every asset id in an asset field of an inserted content node
C4_AssetDedup ==
  /\ \A a \in AssetIds : CountId(NodesOf(store, AssetTypeName), a) <= 1
  /\ \A a \in usedAssets : CountId(NodesOf(store, AssetTypeName), a) = 1

\* two content nodes were inserted, the second with an asset twice in one field
\* and once more in its other field, and the collection holds both assets once
C4_Witness ==
  /\ NodeResolved
  /\ ContentNodeCount(store) = 2
  /\ Len(node.assetFields) = 2
  /\ node.assetFields[1].assets = <<[id |-> "A1"], [id |-> "A1"]>>
  /\ node.assetFields[2].assets = <<[id |-> "A2"], [id |-> "A1"]>>
  /\ usedAssets = {"A1", "A2"}
  /\ Len(NodesOf(store, AssetTypeName)) = 2
  /\ ~(\E k \in 1..Len(store.log) : store.log[k].op = "addCollection")

-----------------------------------------------------------------------------
(* C6 *)

\* the terms of a forest, at every depth
RECURSIVE TermsIn(_)
TermsIn(terms) ==
  IF terms = <<>> THEN {}
  ELSE {Head(terms)} \cup TermsIn(Head(terms).terms) \cup TermsIn(Tail(terms))

\* the number of terms of a forest
RECURSIVE ForestSize(_)
ForestSize(terms) ==
  IF terms = <<>> THEN 0
  ELSE 1 + ForestSize(Head(terms).terms) + ForestSize(Tail(terms))

\* where the node of a term id is in a collection
PositionOf(data, id) == CHOOSE i \in 1..Len(data) : data[i].id = id

\* the terms of one list follow each other, each after the whole subtree of the
\* one before it
SiblingsInOrder(data, siblings) ==
  \A i \in 1..(Len(siblings) - 1) :
    PositionOf(data, siblings[i + 1].id)
      = PositionOf(data, siblings[i].id) + 1 + ForestSize(siblings[i].terms)

PreOrder(data, forest) ==
  /\ Len(data) = ForestSize(forest)
  /\ \A t \in TermsIn(forest) : CountId(data, t.id) = 1
  /\ forest # <<>> => PositionOf(data, forest[1].id) = 1
  /\ SiblingsInOrder(data, forest)
  /\ \A t \in TermsIn(forest) :
       /\ t.terms # <<>> => PositionOf(data, t.terms[1].id) = PositionOf(data, t.id) + 1
       /\ SiblingsInOrder(data, t.terms)
       /\ data[PositionOf(data, t.id)].terms = [i \in 1..Len(t.terms) |-> t.terms[i].id]
       /\ data[PositionOf(data, t.id)].name = t.name
       /\ data[PositionOf(data, t.id)].slug = t.slug

\* the forest A -> [B, C], B -> [D], with t1, t2, t3, t4 for A, B, C, D
ExampleForest ==
  <<Term("t1", <<Term("t2", <<Term("t4", <<>>)>>), Term("t3", <<>>)>>)>>

\* C6: the collection of every fetched taxonomy group holds the nodes of the
\* terms of the group in pre-order, each term once, each with the ids of its own
\* children in their order; the example forest is inserted as t1, t2, t4, t3
C6_RecursiveTaxonomy ==
  pc \in {"getContent", "createNode", "done"} =>
    \A g \in 1..Len(taxonomies) :
      LET data == NodesOf(store, TaxonomyTypeName(taxonomies[g].codename))
      IN /\ PreOrder(data, taxonomies[g].terms)
         /\ taxonomies[g].terms = ExampleForest =>
              [i \in 1..Len(data) |-> data[i].id] = <<"t1", "t2", "t4", "t3">>

\* the example forest was inserted
C6_Witness ==
  /\ pc = "done"
  /\ Len(taxonomies) = 1
  /\ taxonomies[1].terms = ExampleForest
  /\ Len(NodesOf(store, TaxonomyTypeName(taxonomies[1].codename))) = 4
  /\ NodesOf(store, TaxonomyTypeName(taxonomies[1].codename))[3].id = "t4"

-----------------------------------------------------------------------------
(* C7 *)

LinkedItemReferenceCalls(fieldName) ==
  {k \in 1..Len(store.log) :
     /\ store.log[k].op = "addReference"
     /\ store.log[k].by = "addLinkedItemFields"
     /\ store.log[k].fieldName = fieldName}

\* C7: when the fields of a node were resolved, no addReference call was made for
\* a linked-item field without linked items, exactly one for each linked-item
\* field with linked items, and addLinkedItemFields made no other call
C7_EmptyLinkedItemFieldSkip ==
  NodeResolved =>
    /\ \A f \in 1..Len(node.linkedItemFields) :
         Cardinality(LinkedItemReferenceCalls(node.linkedItemFields[f].fieldName))
           = IF Len(node.linkedItemFields[f].linkedItems) = 0 THEN 0 ELSE 1
    /\ Len(LogBy("addLinkedItemFields"))
         = Cardinality({f \in 1..Len(node.linkedItemFields) :
                          Len(node.linkedItemFields[f].linkedItems) > 0})
    /\ \A k \in 1..Len(LogBy("addLinkedItemFields")) :
         /\ LogBy("addLinkedItemFields")[k].op = "addReference"
         /\ LogBy("addLinkedItemFields")[k].collection = node.item.typeName

\* a node whose first linked-item field is empty and whose second is not
C7_Witness ==
  /\ NodeResolved
  /\ Len(node.linkedItemFields) = 2
  /\ Len(node.linkedItemFields[1].linkedItems) = 0
  /\ Len(node.linkedItemFields[2].linkedItems) = 2
  /\ Len(LogBy("addLinkedItemFields")) = 1
  /\ LogBy("addLinkedItemFields")[1].fieldName = node.linkedItemFields[2].fieldName

-----------------------------------------------------------------------------
(* C8 *)

\* the calls of addAssetFields on the Asset collection and on the owning one
AssetCalls == SelectSeq(store.log, LAMBDA c : c.by = "addAssetFields")

\* C8: when the fields of a node were resolved, addAssetFields made, for each
\* asset field in turn, its addNode calls on the Asset collection and then one
\* addReference call from the field's name to the Asset type on the owning
\* collection; for a field without assets the addReference call alone
C8_EmptyAssetFieldDeclared ==
  NodeResolved =>
    LET refs == SelectSeq(AssetCalls, LAMBDA c : c.op = "addReference")
        at(f) == CHOOSE k \in 1..Len(AssetCalls) :
                   /\ AssetCalls[k].op = "addReference"
                   /\ Cardinality({j \in 1..k : AssetCalls[j].op = "addReference"}) = f
    IN /\ Len(refs) = Len(node.assetFields)
       /\ \A f \in 1..Len(node.assetFields) :
            /\ refs[f].fieldName = node.assetFields[f].fieldName
            /\ refs[f].typeName = AssetTypeName
            /\ refs[f].collection = node.item.typeName
            /\ [collection |-> node.item.typeName,
                fieldName |-> node.assetFields[f].fieldName,
                typeName |-> AssetTypeName] \in store.references
            /\ Len(node.assetFields[f].assets) = 0 =>
                 at(f) = IF f = 1 THEN 1 ELSE at(f - 1) + 1
       /\ Len(node.assetFields) > 0 => at(Len(node.assetFields)) = Len(AssetCalls)

\* a node whose first asset field is empty and whose second is not: the
\* reference of the empty field is declared before the asset of the second
C8_Witness ==
  /\ NodeResolved
  /\ Len(node.assetFields) = 2
  /\ Len(node.assetFields[1].assets) = 0
  /\ Len(node.assetFields[2].assets) = 1
  /\ Len(AssetCalls) = 3
  /\ AssetCalls[1].op = "addReference"
  /\ AssetCalls[1].fieldName = node.assetFields[1].fieldName
  /\ AssetCalls[2].op = "addNode"

-----------------------------------------------------------------------------
(* C9 *)

CallsOf(op) == {k \in 1..Len(urlBuilder) : urlBuilder[k].op = op}

\* the output format an explicit format string stands for, "" for none
FormatEnumOf(str) ==
  LET table == [gif |-> "gif", jpg |-> "jpg", jpeg |-> "jpg", pjpg |-> "pjpg",
                pjpeg |-> "pjpg", png |-> "png", png8 |-> "png8", webp |-> "webp"]
  IN IF toLowerCase(str) \in DOMAIN table THEN table[toLowerCase(str)] ELSE ""

\* the output format automatic selection falls back to for a media type, "" for none
AutomaticEnumOf(type) ==
  LET table == [gif |-> "image/gif", jpg |-> "image/jpeg", png |-> "image/png"]
  IN IF \E e \in DOMAIN table : table[e] = toLowerCase(type)
     THEN CHOOSE e \in DOMAIN table : table[e] = toLowerCase(type)
     ELSE ""

\* C9 as stated: with automaticFormat true the explicit format is not applied
C9_AutomaticExcludesExplicit ==
  (urlResult # Null /\ urlArgs.automaticFormat = Some(TRUE)) => CallsOf("withFormat") = {}

\* C9 as amended: the explicit format is applied whenever the format argument is
\* given and recognised, with automaticFormat true as well; the automatic format
\* is applied whenever automaticFormat is true and the media type is gif, jpeg or
\* png; and when both are applied the automatic format is applied first
C9_ExplicitAfterAutomatic ==
  urlResult # Null =>
    /\ Cardinality(CallsOf("withFormat"))
         = IF urlArgs.format # Null /\ FormatEnumOf(urlArgs.format[1]) # "" THEN 1 ELSE 0
    /\ \A k \in CallsOf("withFormat") : urlBuilder[k].e = FormatEnumOf(urlArgs.format[1])
    /\ Cardinality(CallsOf("withAutomaticFormat"))
         = IF urlArgs.automaticFormat = Some(TRUE) /\ AutomaticEnumOf(urlObj.type) # ""
           THEN 1 ELSE 0
    /\ \A k \in CallsOf("withAutomaticFormat") : urlBuilder[k].e = AutomaticEnumOf(urlObj.type)
    /\ \A i \in CallsOf("withAutomaticFormat") : \A j \in CallsOf("withFormat") : j = i + 1
    /\ urlResult[1].params = urlBuilder

\* automaticFormat is true for a png and format is WebP: both are applied
C9_Witness ==
  /\ urlResult # Null
  /\ urlObj.type = "IMAGE/PNG"
  /\ urlArgs.automaticFormat = Some(TRUE)
  /\ urlArgs.format = Some("WebP")
  /\ urlArgs.width = Null /\ urlArgs.height = Null /\ urlArgs.lossless = Null
  /\ urlArgs.quality = Null /\ urlArgs.dpr = Null
  /\ urlBuilder = <<BuilderCall("withAutomaticFormat", 0, "png"),
                    BuilderCall("withFormat", 0, "webp")>>

-----------------------------------------------------------------------------
(* C10 *)

\* the place of a transform in the order of the claim
TransformRank(op) ==
  CASE op = "withWidth" -> 1
    [] op = "withHeight" -> 2
    [] op \in {"withAutomaticFormat", "withFormat"} -> 3
    [] op = "withCompression" -> 4
    [] op = "withQuality" -> 5
    [] op = "withDpr" -> 6

NumberCalls(op, arg) ==
  IF arg = Null THEN CallsOf(op) = {}
  ELSE \E k \in 1..Len(urlBuilder) :
         CallsOf(op) = {k} /\ urlBuilder[k] = BuilderCall(op, arg[1], "")

\* C10: the transforms are applied in the order width, height, format selection,
\* compression, quality, dpr; a null argument applies none; a number or lossless
\* given applies its transform once with its value; for a png with
\* automaticFormat true and width 300 the builder gets the width 300 and then the
\* automatic format png
C10_CompositionOrder ==
  urlResult # Null =>
    /\ \A i, j \in 1..Len(urlBuilder) :
         i < j => TransformRank(urlBuilder[i].op) <= TransformRank(urlBuilder[j].op)
    /\ \A i, j \in 1..Len(urlBuilder) :
         (i # j /\ TransformRank(urlBuilder[i].op) = TransformRank(urlBuilder[j].op))
           => {urlBuilder[i].op, urlBuilder[j].op} = {"withAutomaticFormat", "withFormat"}
    /\ NumberCalls("withWidth", urlArgs.width)
    /\ NumberCalls("withHeight", urlArgs.height)
    /\ NumberCalls("withQuality", urlArgs.quality)
    /\ NumberCalls("withDpr", urlArgs.dpr)
    /\ urlArgs.automaticFormat = Null => CallsOf("withAutomaticFormat") = {}
    /\ urlArgs.format = Null => CallsOf("withFormat") = {}
    /\ IF urlArgs.lossless = Null THEN CallsOf("withCompression") = {}
       ELSE \E k \in 1..Len(urlBuilder) :
              /\ CallsOf("withCompression") = {k}
              /\ urlBuilder[k] = BuilderCall("withCompression", 0,
                                              IF urlArgs.lossless[1] THEN "lossless" ELSE "lossy")
    /\ (/\ urlObj.type = "image/png"
        /\ urlArgs = [NoArgs EXCEPT !.automaticFormat = Some(TRUE), !.width = Some(300)])
         => urlBuilder = <<BuilderCall("withWidth", 300, ""),
                           BuilderCall("withAutomaticFormat", 0, "png")>>
    /\ urlResult[1] = [url |-> urlObj.url, params |-> urlBuilder]

\* every argument is given, and the seven transforms are applied
C10_Witness ==
  /\ urlResult # Null
  /\ \A a \in DOMAIN urlArgs : urlArgs[a] # Null
  /\ urlArgs.width = Some(300)
  /\ Len(urlBuilder) = 7
  /\ urlBuilder[1].op = "withWidth"
  /\ urlBuilder[7].op = "withDpr"

-----------------------------------------------------------------------------
(* C11 *)

SchemaResolverCalls(log) == {k \in 1..Len(log) : log[k].op = "addSchemaResolvers"}

\* C11: store.addSchemaResolvers is called at most once, as the last call of
\* load, after the content of every content type was assembled, and for the
\* Asset type only; when it is called the Asset collection holds a node, and
\* when no inserted content node has an asset it is not called
C11_SchemaResolversOnce ==
  /\ Len(store.schemaResolvers) <= 1
  /\ Cardinality(SchemaResolverCalls(store.log)) <= 1
  /\ \A k \in SchemaResolverCalls(store.log) : k = Len(store.log) /\ pc = "done"
  /\ store.schemaResolvers # <<>> =>
       /\ pc = "done"
       /\ typeIdx = Len(contentTypes)
       /\ store.schemaResolvers = <<AssetTypeName>>
       /\ Len(NodesOf(store, AssetTypeName)) > 0
  /\ usedAssets = {} => store.schemaResolvers = <<>>

\* the last content node of the load brought the second asset of the store, and
\* the resolvers were registered after it
C11_Witness ==
  /\ pc = "done"
  /\ typeIdx = 2
  /\ store.schemaResolvers = <<AssetTypeName>>
  /\ Len(NodesOf(store, AssetTypeName)) = 2
  /\ Len(store.log) > 2
  /\ store.log[Len(store.log)].op = "addSchemaResolvers"
  /\ \E k \in 1..Len(store.log) : store.log[k].op = "addNode" /\ store.log[k].by = "addAssetFields"

-----------------------------------------------------------------------------
(* C12 *)

Awaiting == {"getContentTypes", "getTaxonomyGroups", "getContent", "createNode"}

\* C12: when an awaited fetch or createNode() rejects, load rejects with the
\* failure of that call, and the step makes no call on the store or the client;
\* once load has rejected nothing happens any more: no retry, no client call, no
\* collection, reference, node or schema resolver
C12_AbortOnFailure ==
  [][/\ (rejection = Null /\ rejection' # Null /\ rejection'[1].failure \in Failures) =>
          /\ pc \in Awaiting
          /\ rejection'[1].awaited = pc
          /\ pc' = "rejected"
          /\ store'.collections = store.collections
          /\ store'.references = store.references
          /\ store'.schemaResolvers = store.schemaResolvers
          /\ store'.log = <<>>
          /\ typeResolvers' = typeResolvers
     /\ pc = "rejected" => FALSE
     /\ rejection # Null => FALSE]_vars

\* the createNode() of a primary entry rejected after content and asset nodes
\* were inserted: the second content type is never fetched and no schema
\* resolver is registered
C12_Witness ==
  /\ pc = "rejected"
  /\ rejection = Some([awaited |-> "createNode", failure |-> "ConstructorError"])
  /\ pass = "primary"
  /\ typeIdx = 1
  /\ ContentNodeCount(store) > 0
  /\ Len(NodesOf(store, AssetTypeName)) > 0
  /\ store.schemaResolvers = <<>>

-----------------------------------------------------------------------------
(* C13 *)

\* a forest with its missing lists taken as empty
RECURSIVE AsEmpty(_)
AsEmpty(terms) ==
  IF terms = undefined THEN <<>>
  ELSE [i \in 1..Len(terms) |->
          [id |-> terms[i].id, name |-> terms[i].name, slug |-> terms[i].slug,
           terms |-> AsEmpty(terms[i].terms)]]

RECURSIVE HasMissingList(_)
HasMissingList(terms) ==
  \/ terms = undefined
  \/ \E i \in 1..Len(terms) : HasMissingList(terms[i].terms)

\* C13: a taxonomy response with missing term lists is processed as if the
\* missing lists were empty: load does not reject, and the collection of every
\* group holds the terms of the group, in pre-order
C13_MissingListsAsEmpty ==
  taxonomies # <<>> =>
    /\ pc # "rejected"
    /\ \A g \in 1..Len(taxonomies) :
         PreOrder(NodesOf(store, TaxonomyTypeName(taxonomies[g].codename)),
                  AsEmpty(taxonomies[g].terms))

-----------------------------------------------------------------------------
(* C14 *)

\* the calls content assembly made on the store in the last step
ContentCalls(log) ==
  {k \in 1..Len(log) : log[k].by \in {"addLinkedItemFields", "addTaxonomyFields",
                                        "addAssetFields", "addContentNode", "addItemLinkNode"}}

\* C14: the content types are fetched one after the other in the order of
\* contentTypes: getContent for the next type is issued only by the step that
\* ends the pass of the type before it (its fetch without entries, or the node of
\* its last primary entry); every fetch answers for the type whose turn it is;
\* the store calls of a step are those of one node of the running pass; and load
\* ends after the last type
C14_CrossTypeSequencing ==
  [][/\ typeIdx' # typeIdx =>
          /\ typeIdx' = typeIdx + 1
          /\ pc' = "getContent"
          /\ typeIdx > 0 =>
               \/ pc = "getContent" /\ contentItems' = <<>>
               \/ pc = "createNode" /\ pass = "primary" /\ idx = Len(contentItems)
     /\ (pc = "getContent" /\ pc' # "rejected") =>
          \A i \in 1..Len(contentItems') : EntryCodename(contentItems'[i]) = contentTypes[typeIdx]
     /\ (pc = "createNode" /\ pc' # "rejected") =>
          /\ node'.item.id = passItems[idx]
          /\ \A k \in ContentCalls(store'.log) :
               /\ store'.log[k].op = "addReference" => store'.log[k].collection = node'.item.typeName
               /\ store'.log[k].by \in {"addContentNode", "addItemLinkNode"} =>
                    store'.log[k].id = node'.item.id
          /\ (idx < Len(passItems) \/ pass = "linked") => typeIdx' = typeIdx /\ pc' = "createNode"
     /\ pc # "createNode" => ContentCalls(store'.log) = {}
     /\ (pc' = "done" /\ rejection' = Null) => typeIdx' = Len(contentTypes')]_vars

\* the node of the last primary entry of the first type was inserted, after a
\* linked item of the second type, and the second type is being fetched
C14_Witness ==
  /\ pc = "getContent"
  /\ typeIdx = 2
  /\ NodeResolved
  /\ node.item.via = "primary"
  /\ node.item.typeName = ContentTypeName(contentTypes[1])
  /\ Present(store, "u1")
  /\ ContentCalls(store.log) # {}

-----------------------------------------------------------------------------
(* C15 *)

\* the step left every collection and every reference of the store as it was;
\* when the step ends load, the calls of addAssetSchemaResolvers apart
ContentUntouched ==
  /\ store'.references = store.references
  /\ \A c \in DOMAIN store.collections :
       c \in DOMAIN store'.collections /\ store'.collections[c] = store.collections[c]
  /\ \A k \in 1..Len(store'.log) :
       /\ pc' = "done"
       /\ \/ store'.log[k].op = "addSchemaResolvers"
          \/ store'.log[k].op = "addCollection" /\ store'.log[k].collection = AssetTypeName
  /\ DOMAIN store'.collections \ DOMAIN store.collections
       \subseteq (IF pc' = "done" THEN {AssetTypeName} ELSE {})

\* C15: a createNode() step for an entry whose id is in its collection makes no
\* call on the store: no collection, no reference, no asset node, no content
\* node and no ItemLink node is added, whatever fields the node has
C15_DuplicateNoOp ==
  [][(CreateNodeStep /\ Present(store, passItems[idx])) =>
       /\ ContentUntouched
       /\ ContentCalls(store'.log) = {}
       /\ store'.schemaResolvers # store.schemaResolvers => pc' = "done"]_vars

\* an entry in the store is met again, its node now with a linked-item field, a
\* taxonomy field and an asset the store does not hold: no call was made
C15_Witness ==
  /\ returned # Null
  /\ returned[1].id = node.item.id
  /\ returned[1].via # node.item.via
  /\ pc = "createNode"
  /\ store.log = <<>>
  /\ Len(node.linkedItemFields) > 0
  /\ Len(node.taxonomyFields) > 0
  /\ "A2" \in AssetIdsOf(node)
  /\ CountId(NodesOf(store, AssetTypeName), "A2") = 0
  /\ [collection |-> node.item.typeName, fieldName |-> node.linkedItemFields[1].fieldName,
      typeName |-> node.linkedItemFields[1].linkedItems[1].typeName] \notin store.references

-----------------------------------------------------------------------------
(* C16 *)

\* where the last step called addNode for its content node
ContentNodeCall ==
  CHOOSE k \in 1..Len(store.log) :
    store.log[k].op = "addNode" /\ store.log[k].by = "addContentNode"

ReferenceCallBefore(k, by, fieldName, typeName) ==
  \E j \in 1..(k - 1) :
    store.log[j] = Call("addReference", node.item.typeName, fieldName, typeName, "", by)

\* C16: when a content node was inserted, the addReference calls of its
\* linked-item fields with linked items, of its taxonomy fields and of its asset
\* fields, and the addNode calls of its assets, were all made before the addNode
\* call of the node, and no such call was made after it
C16_ReferenceBeforeInsertion ==
  NodeResolved =>
    /\ \A f \in 1..Len(node.linkedItemFields) :
         Len(node.linkedItemFields[f].linkedItems) > 0 =>
           \E t \in ContentTypeNames :
             ReferenceCallBefore(ContentNodeCall, "addLinkedItemFields",
                                 node.linkedItemFields[f].fieldName, t)
    /\ \A f \in 1..Len(node.taxonomyFields) :
         ReferenceCallBefore(ContentNodeCall, "addTaxonomyFields",
                             node.taxonomyFields[f].fieldName,
                             TaxonomyTypeName(node.taxonomyFields[f].taxonomyGroup))
    /\ \A f \in 1..Len(node.assetFields) :
         ReferenceCallBefore(ContentNodeCall, "addAssetFields",
                             node.assetFields[f].fieldName, AssetTypeName)
    /\ \A a \in AssetIdsOf(node) : CountId(NodesOf(store, AssetTypeName), a) = 1
    /\ \A k \in 1..Len(store.log) :
         (store.log[k].op = "addReference" \/ store.log[k].by = "addAssetFields")
           => k < ContentNodeCall

\* a node with a linked-item field, a taxonomy field and an asset field that
\* brought a new asset: five calls, then the node
C16_Witness ==
  /\ NodeResolved
  /\ Len(node.linkedItemFields) = 2
  /\ Len(node.linkedItemFields[1].linkedItems) = 2
  /\ Len(node.taxonomyFields) = 1
  /\ Len(node.assetFields) = 2
  /\ \E k \in 1..Len(store.log) : store.log[k].op = "addNode" /\ store.log[k].by = "addAssetFields"
  /\ ContentNodeCall > 5
  /\ store.log[ContentNodeCall].id = node.item.id

-----------------------------------------------------------------------------
(* C17 *)

\* C17: when getContent resolves without content items, with linked items or
\* without, the step calls no createNode() and leaves the collections and the
\* references of the store as they were, and load goes on: to the getContent of
\* the next content type, or to its end after the last one
C17_EmptyResultShortCircuit ==
  [][(pc = "getContent" /\ pc' # "rejected" /\ contentItems' = <<>>) =>
       /\ ContentUntouched
       /\ pc' # "createNode"
       /\ node' = node
       /\ IF typeIdx < Len(contentTypes)
          THEN pc' = "getContent" /\ typeIdx' = typeIdx + 1 /\ store'.log = <<>>
          ELSE pc' = "done" /\ typeIdx' = typeIdx]_vars

\* the fetch of the first content type had no content item and two linked
\* items: the store is empty and the second type is being fetched
C17_Witness ==
  /\ pc = "getContent"
  /\ typeIdx = 2
  /\ contentItems = <<>>
  /\ Len(linkedItems) = 2
  /\ ContentCollections(store) = {}
  /\ ItemLinkTypeName \notin DOMAIN store.collections
  /\ node = NoNode

-----------------------------------------------------------------------------
(* C18 *)

\* the phase load is in: fetching the content types, building the taxonomy,
\* assembling the content, ended
Phase(at) ==
  CASE at = "init" -> 0
    [] at = "getContentTypes" -> 1
    [] at = "getTaxonomyGroups" -> 2
    [] at \in {"getContent", "createNode"} -> 3
    [] at \in {"done", "rejected"} -> 4

\* C18: from the moment getTaxonomyGroups is issued, a type resolver is
\* registered for every fetched content type, in their order, and none is
\* registered later; load never goes back to an earlier phase; the store gets
\* its first collection from the taxonomy phase at the earliest, the taxonomy
\* collections are filled by the taxonomy phase alone, the content calls are
\* made by the content phase alone, and the schema resolvers are registered by
\* the step that ends load
C18_PhaseOrder ==
  [][/\ Phase(pc') >= Phase(pc)
     /\ (pc' \in {"getTaxonomyGroups", "getContent", "createNode", "done"}) =>
          typeResolvers' = contentTypes'
     /\ typeResolvers' # typeResolvers => pc = "getContentTypes" /\ pc' = "getTaxonomyGroups"
     /\ Phase(pc) < 2 => (DOMAIN store'.collections = {} /\ store'.references = {})
     /\ Phase(pc) # 2 => \A t \in TaxonomyTypeNames : NodesOf(store', t) = NodesOf(store, t)
     /\ Phase(pc) # 3 => ContentCalls(store'.log) = {}
     /\ SchemaResolverCalls(store'.log) # {} => (Phase(pc) \in {2, 3} /\ pc' = "done")]_vars

\* a load went through its four phases: two type resolvers, the terms of two
\* taxonomy groups, content nodes of both types, and the schema resolvers
C18_Witness ==
  /\ pc = "done"
  /\ typeResolvers = <<"article", "author">>
  /\ Len(NodesOf(store, "TaxonomyTopics")) = 2
  /\ Len(NodesOf(store, "TaxonomyRegions")) = 1
  /\ Len(NodesOf(store, "Article")) > 0
  /\ Len(NodesOf(store, "Author")) > 0
  /\ store.schemaResolvers # <<>>

-----------------------------------------------------------------------------
(* C19 *)

\* C19: when the fields of a node were resolved, each of its linked-item fields
\* with linked items was declared on the collection of the node as a reference
\* to the type name of its first linked item, whatever the type names of the
\* others, and the step raised no error
C19_FirstTypeResolution ==
  NodeResolved =>
    /\ rejection = Null
    /\ pc # "rejected"
    /\ \A f \in 1..Len(node.linkedItemFields) :
         Len(node.linkedItemFields[f].linkedItems) > 0 =>
           LET fieldName == node.linkedItemFields[f].fieldName
               first == node.linkedItemFields[f].linkedItems[1].typeName
           IN /\ LinkedItemReferenceCalls(fieldName) # {}
              /\ \A k \in LinkedItemReferenceCalls(fieldName) :
                   /\ store.log[k].typeName = first
                   /\ store.log[k].collection = node.item.typeName
              /\ [collection |-> node.item.typeName, fieldName |-> fieldName,
                  typeName |-> first] \in store.references

\* a field with an Author and then an Article was declared as a reference to
\* Author, and the node was inserted
C19_Witness ==
  /\ NodeResolved
  /\ Len(node.linkedItemFields) = 2
  /\ node.linkedItemFields[1].linkedItems = <<[typeName |-> "Author"], [typeName |-> "Article"]>>
  /\ \E k \in LinkedItemReferenceCalls(node.linkedItemFields[1].fieldName) :
       store.log[k].typeName = "Author"
  /\ [collection |-> node.item.typeName, fieldName |-> node.linkedItemFields[1].fieldName,
      typeName |-> "Article"] \notin store.references
  /\ Present(store, node.item.id)

-----------------------------------------------------------------------------
(* C20 *)

\* C20: the references declared on one collection for one field name all have
\* the same target type name (store.references holds the arguments of every
\* addReference call made so far)
C20_ReferenceTypeConsistency ==
  \A r1, r2 \in store.references :
    (r1.collection = r2.collection /\ r1.fieldName = r2.fieldName) => r1.typeName = r2.typeName

====
